---- MODULE Spec2Model ----
(***************************************************************************)
(* KeywordNotifier (Vencord plugin): the MESSAGE_CREATE handler and the    *)
(* notification dispatcher, in the four versions the repository holds:     *)
(*   index   src/src/plugins/keywordNotifier/index.ts                      *)
(*   v1      src/unnamed/part_000 lines   1-144  (scope selects, no break) *)
(*   v2      src/unnamed/part_000 lines 146-336  (scope selects)           *)
(*   v3      src/unnamed/part_000 lines 338-507  (no scope selects)        *)
(*                                                                         *)
(* A JavaScript string is a sequence of characters, so that split, trim,   *)
(* toLowerCase and includes are computed as the code computes them.  A     *)
(* printable ASCII character is the one-character string of itself, tab,   *)
(* line feed, form feed and carriage return are "\t", "\n", "\f" and "\r", *)
(* and every other character is the string that names its code point,      *)
(* "U+00C0" for instance.  The characters of the model are those of        *)
(* U+0000-U+00FF and the white space and line terminators beyond them.     *)
(* The value undefined is the one-element sequence Undefined, whose        *)
(* element is no character.                                                *)
(***************************************************************************)
EXTENDS Naturals, Sequences, FiniteSets

VARIABLES version, settings, env, pc, ev, out, runs, first, ui

vars == <<version, settings, env, pc, ev, out, runs, first, ui>>

(***************************************************************************)
(* Bounds of the checked input sets.                                       *)
(***************************************************************************)
MaxKeywordsLen == 3
MaxContentLen == 3
MaxListItems == 2
MaxDeliveries == 2
MaxDesktops == 2
MaxShown == 2

(***************************************************************************)
(* JavaScript values and string operations.                                *)
(***************************************************************************)
Undefined == <<"undefined">>

\* the WhiteSpace and LineTerminator code points String.prototype.trim removes
Whitespace ==
    {"\t", "\n", "U+000B", "\f", "\r", " ", "U+00A0", "U+1680",
      "U+2000", "U+2001", "U+2002", "U+2003", "U+2004", "U+2005",
      "U+2006", "U+2007", "U+2008", "U+2009", "U+200A", "U+2028",
      "U+2029", "U+202F", "U+205F", "U+3000", "U+FEFF"}

\* mutant of Falsy: only the empty string counts as absent
FalsyEmptyOnly(x) == x = <<>>

\* !x for a value that is a string or undefined
Falsy(x) == x = Undefined \/ x = <<>>

RECURSIVE SplitFrom(_, _, _, _)
SplitFrom(s, i, cur, acc) ==
    IF i > Len(s) THEN Append(acc, cur)
    ELSE IF s[i] = "," THEN SplitFrom(s, i + 1, <<>>, Append(acc, cur))
    ELSE SplitFrom(s, i + 1, Append(cur, s[i]), acc)

\* String.prototype.split(","): "" gives [""], "a," gives ["a", ""]
Split(s) == SplitFrom(s, 1, <<>>, <<>>)

RECURSIVE TrimStart(_)
TrimStart(s) ==
    IF s # <<>> /\ s[1] \in Whitespace THEN TrimStart(Tail(s)) ELSE s

RECURSIVE TrimEnd(_)
TrimEnd(s) ==
    IF s # <<>> /\ s[Len(s)] \in Whitespace
    THEN TrimEnd(SubSeq(s, 1, Len(s) - 1)) ELSE s

\* String.prototype.trim
Trim(s) == TrimEnd(TrimStart(s))

\* the characters String.prototype.toLowerCase changes, and what it makes of
\* them: A-Z, and U+00C0-U+00DE without the multiplication sign U+00D7
UpperCase ==
    <<"A", "B", "C", "D", "E", "F", "G", "H", "I", "J", "K", "L", "M",
      "N", "O", "P", "Q", "R", "S", "T", "U", "V", "W", "X", "Y", "Z",
      "U+00C0", "U+00C1", "U+00C2", "U+00C3", "U+00C4", "U+00C5",
      "U+00C6", "U+00C7", "U+00C8", "U+00C9", "U+00CA", "U+00CB",
      "U+00CC", "U+00CD", "U+00CE", "U+00CF", "U+00D0", "U+00D1",
      "U+00D2", "U+00D3", "U+00D4", "U+00D5", "U+00D6", "U+00D8",
      "U+00D9", "U+00DA", "U+00DB", "U+00DC", "U+00DD", "U+00DE">>

LowerCase ==
    <<"a", "b", "c", "d", "e", "f", "g", "h", "i", "j", "k", "l", "m",
      "n", "o", "p", "q", "r", "s", "t", "u", "v", "w", "x", "y", "z",
      "U+00E0", "U+00E1", "U+00E2", "U+00E3", "U+00E4", "U+00E5",
      "U+00E6", "U+00E7", "U+00E8", "U+00E9", "U+00EA", "U+00EB",
      "U+00EC", "U+00ED", "U+00EE", "U+00EF", "U+00F0", "U+00F1",
      "U+00F2", "U+00F3", "U+00F4", "U+00F5", "U+00F6", "U+00F8",
      "U+00F9", "U+00FA", "U+00FB", "U+00FC", "U+00FD", "U+00FE">>

LowerOf ==
    [c \in {UpperCase[i] : i \in 1..Len(UpperCase)} |->
        LowerCase[CHOOSE i \in 1..Len(UpperCase) : UpperCase[i] = c]]

LowerChar(c) == IF c \in DOMAIN LowerOf THEN LowerOf[c] ELSE c

RECURSIVE ToLowerCase(_)
ToLowerCase(s) ==
    IF s = <<>> THEN <<>> ELSE <<LowerChar(s[1])>> \o ToLowerCase(Tail(s))

\* String.prototype.includes: the empty string is included in every string
StrIncludes(s, sub) ==
    \E i \in 0..Len(s) :
        i + Len(sub) <= Len(s) /\ SubSeq(s, i + 1, i + Len(sub)) = sub

\* Array.prototype.includes
ArrIncludes(arr, x) == \E i \in 1..Len(arr) : arr[i] = x

RECURSIVE MapTrim(_)
MapTrim(arr) ==
    IF arr = <<>> THEN <<>> ELSE <<Trim(arr[1])>> \o MapTrim(Tail(arr))

RECURSIVE MapTrimLower(_)
MapTrimLower(arr) ==
    IF arr = <<>> THEN <<>>
    ELSE <<ToLowerCase(Trim(arr[1]))>> \o MapTrimLower(Tail(arr))

(***************************************************************************)
(* Configuration parsing.                                                  *)
(***************************************************************************)
\* index.ts: settings.store.X.length > 0 ? X.split(",").map(id => id.trim()) : []
ParseIdList(text) == IF Len(text) > 0 THEN MapTrim(Split(text)) ELSE <<>>

\* v1, v2, v3: settings.store.X.split(",").map(id => id.trim())
SplitTrim(text) == MapTrim(Split(text))

\* index.ts, v2, v3: keywords.split(",").map(k => k.trim().toLowerCase())
ParseKeywords(text) == MapTrimLower(Split(text))

\* v1: keywords.split(",").map(k => k.trim())
ParseKeywordsV1(text) == MapTrim(Split(text))

\* the v1 settings name the combined scope "guild-channel", v2 names it "both"
ScopeV1(scope) == IF scope = "both" THEN "guild-channel" ELSE scope

(***************************************************************************)
(* Notification dispatcher.  A call of Notify is recorded by the keyword   *)
(* it was given and by the renderer invocations it made; of a renderer     *)
(* invocation the record keeps what its callback holds, the guildId, the   *)
(* channelId and the message id Notify was given, and whether the callback *)
(* dismisses the notice (display texts are left out).                      *)
(***************************************************************************)
\* `/channels/${guildId}/${channelId}/${message.id}`
NavPath(guildId, channelId, messageId) ==
    <<"/", "c", "h", "a", "n", "n", "e", "l", "s", "/">> \o guildId
        \o <<"/">> \o channelId \o <<"/">> \o messageId

ShowsNotice(mode) == mode = "inApp" \/ mode = "both"

\* mutant of ShowsDesktop: the mode "both" is forgotten
ShowsDesktopOnly(mode) == mode = "desktop"

ShowsDesktop(mode) == mode = "desktop" \/ mode = "both"

\* the callback given to a renderer: () => { transitionTo(...); popNotice(); }
Callback(ctx, pops) ==
    [guildId |-> ctx.guildId, channelId |-> ctx.channelId,
     messageId |-> ctx.message.id, pops |-> pops]

NotifyWith(mode, ctx, keyword, pops) ==
    [keyword  |-> keyword,
     notices  |-> IF ShowsNotice(mode) THEN <<Callback(ctx, pops)>> ELSE <<>>,
     desktops |-> IF ShowsDesktop(mode) THEN <<Callback(ctx, FALSE)>> ELSE <<>>]

\* index.ts and v2
Notify(mode, ctx, keyword) == NotifyWith(mode, ctx, keyword, TRUE)

\* v1
NotifyV1(mode, ctx, keyword) == NotifyWith(mode, ctx, keyword, TRUE)

\* v3: the notice's action does not call Notices.popNotice()
NotifyV3(mode, ctx, keyword) == NotifyWith(mode, ctx, keyword, FALSE)

(***************************************************************************)
(* Keyword scan.                                                           *)
(***************************************************************************)
\* mutant of KeywordMatches: the length guard is dropped
KeywordMatchesAnyLength(keyword, content) ==
    StrIncludes(ToLowerCase(content), keyword)

\* keyword.length > 0 && ctx.message.content.toLowerCase().includes(keyword)
KeywordMatches(keyword, content) ==
    Len(keyword) > 0 /\ StrIncludes(ToLowerCase(content), keyword)

\* v1: keyword.length > 0 && ctx.message.content.includes(keyword)
KeywordMatchesV1(keyword, content) ==
    Len(keyword) > 0 /\ StrIncludes(content, keyword)

\* index.ts, v2: for (var keyword of keywords) if (...) { Notify(options); break; }
RECURSIVE ScanKeywords(_, _, _)
ScanKeywords(mode, keywords, ctx) ==
    IF keywords = <<>> THEN <<>>
    ELSE IF KeywordMatches(keywords[1], ctx.message.content)
         THEN <<Notify(mode, ctx, keywords[1])>>
         ELSE ScanKeywords(mode, Tail(keywords), ctx)

\* v3: the same loop, calling v3's Notify
RECURSIVE ScanKeywordsV3(_, _, _)
ScanKeywordsV3(mode, keywords, ctx) ==
    IF keywords = <<>> THEN <<>>
    ELSE IF KeywordMatches(keywords[1], ctx.message.content)
         THEN <<NotifyV3(mode, ctx, keywords[1])>>
         ELSE ScanKeywordsV3(mode, Tail(keywords), ctx)

\* v1: for (var keyword of keywords) if (...) Notify(ctx, keyword);   (no break)
RECURSIVE ScanKeywordsV1(_, _, _)
ScanKeywordsV1(mode, keywords, ctx) ==
    IF keywords = <<>> THEN <<>>
    ELSE (IF KeywordMatchesV1(keywords[1], ctx.message.content)
          THEN <<NotifyV1(mode, ctx, keywords[1])>> ELSE <<>>)
         \o ScanKeywordsV1(mode, Tail(keywords), ctx)

(***************************************************************************)
(* The handler's outcome: the statement at which it returned (stage), the  *)
(* id lists it parsed (when it got that far), whether it raised, and the   *)
(* Notify calls it made, in order.                                         *)
(***************************************************************************)
NoLists ==
    [allowedGuilds |-> <<>>, allowedChannels |-> <<>>, ignoredGuilds |-> <<>>,
     ignoredChannels |-> <<>>, ignoredUsers |-> <<>>]

Returned(stage, parsed, lists) ==
    [stage |-> stage, raised |-> FALSE, parsed |-> parsed, lists |-> lists,
     calls |-> <<>>]

\* a TypeError leaves the handler: nothing was parsed, nothing notified
Raised ==
    [stage |-> "raised", raised |-> TRUE, parsed |-> FALSE, lists |-> NoLists,
     calls |-> <<>>]

Scanned(lists, calls) ==
    [stage |-> IF calls = <<>> THEN "noMatch" ELSE "notified", raised |-> FALSE,
     parsed |-> TRUE, lists |-> lists, calls |-> calls]

NoOutcome ==
    [stage |-> "idle", raised |-> FALSE, parsed |-> FALSE, lists |-> NoLists,
     calls |-> <<>>]

(***************************************************************************)
(* index.ts                                                                *)
(***************************************************************************)
\* index.ts line 144
AllowListSuppresses(allowedGuilds, allowedChannels, ctx) ==
    /\ (Len(allowedGuilds) > 0 /\ ~ArrIncludes(allowedGuilds, ctx.guildId))
    /\ (Len(allowedChannels) > 0 /\ ~ArrIncludes(allowedChannels, ctx.channelId))

\* mutant of ParsedLists: ignoredChannels is read from ignoredGuilds
ParsedListsDenyTypo(s) ==
    [allowedGuilds   |-> ParseIdList(s.allowedGuilds),
     allowedChannels |-> ParseIdList(s.allowedChannels),
     ignoredGuilds   |-> ParseIdList(s.ignoredGuilds),
     ignoredChannels |-> ParseIdList(s.ignoredGuilds),
     ignoredUsers    |-> ParseIdList(s.ignoredUsers)]

ParsedLists(s) ==
    [allowedGuilds   |-> ParseIdList(s.allowedGuilds),
     allowedChannels |-> ParseIdList(s.allowedChannels),
     ignoredGuilds   |-> ParseIdList(s.ignoredGuilds),
     ignoredChannels |-> ParseIdList(s.ignoredChannels),
     ignoredUsers    |-> ParseIdList(s.ignoredUsers)]

\* currentUser?.id is undefined without a current user; an id is a string
MentionsCurrentUser(ctx, e) ==
    \E mention \in ctx.message.mentions : mention = e.currentUser

\* mutant of AuthorIsCurrentUser: the wrong field is compared
AuthorIsCurrentUserByChannel(ctx, e) == ctx.channelId = e.currentUser

\* ctx.message.author.id === currentUser?.id
AuthorIsCurrentUser(ctx, e) == ctx.message.author.id = e.currentUser

\* UserStore.getUser(id)?.bot
DirectoryBot(e, id) == id \in e.bots

EvalIndex(s, e, ctx) ==
    LET l == ParsedLists(s)
    IN  IF Falsy(ctx.guildId) THEN Returned("noGuild", FALSE, NoLists)
        ELSE IF ctx.isPushNotification THEN Returned("push", FALSE, NoLists)
        ELSE IF s.ignoreMentions /\ MentionsCurrentUser(ctx, e)
             THEN Returned("mention", FALSE, NoLists)
        ELSE IF AuthorIsCurrentUser(ctx, e)
             THEN Returned("self", FALSE, NoLists)
        ELSE IF ctx.channelId = e.currentChannel
             THEN Returned("viewing", FALSE, NoLists)
        ELSE IF AllowListSuppresses(l.allowedGuilds, l.allowedChannels, ctx)
             THEN Returned("allow", TRUE, l)
        ELSE IF ArrIncludes(l.ignoredGuilds, ctx.guildId)
             THEN Returned("ignoredGuild", TRUE, l)
        ELSE IF ArrIncludes(l.ignoredChannels, ctx.channelId)
             THEN Returned("ignoredChannel", TRUE, l)
        ELSE IF ArrIncludes(l.ignoredUsers, ctx.message.author.id)
             THEN Returned("ignoredUser", TRUE, l)
        ELSE IF s.ignoreBots /\ DirectoryBot(e, ctx.message.author.id)
             THEN Returned("bot", TRUE, l)
        ELSE Scanned(l, ScanKeywords(s.notifications, ParseKeywords(s.keywords), ctx))

(***************************************************************************)
(* v1 (part_000 lines 1-144)                                               *)
(***************************************************************************)
ParsedListsV1(s) ==
    [allowedGuilds   |-> SplitTrim(s.allowedGuilds),
     allowedChannels |-> SplitTrim(s.allowedChannels),
     ignoredGuilds   |-> SplitTrim(s.ignoredGuilds),
     ignoredChannels |-> SplitTrim(s.ignoredChannels),
     ignoredUsers    |-> <<>>]

\* lines 117-121 (v1) and 291-295 (v2); both is the combined scope's name
ScopedAllowSuppresses(scope, both, l, ctx) ==
    /\ scope # "none"
    /\ \/ scope = "guild" /\ ~ArrIncludes(l.allowedGuilds, ctx.guildId)
       \/ scope = "channel" /\ ~ArrIncludes(l.allowedChannels, ctx.channelId)
       \/ /\ scope = both
          /\ ~ArrIncludes(l.allowedGuilds, ctx.guildId)
          /\ ~ArrIncludes(l.allowedChannels, ctx.channelId)

\* lines 123-127 (v1) and 297-301 (v2)
ScopedDenySuppresses(scope, both, l, ctx) ==
    /\ scope # "none"
    /\ \/ scope = "guild" /\ ArrIncludes(l.ignoredGuilds, ctx.guildId)
       \/ scope = "channel" /\ ArrIncludes(l.ignoredChannels, ctx.channelId)
       \/ /\ scope = both
          /\ ArrIncludes(l.ignoredGuilds, ctx.guildId)
          /\ ArrIncludes(l.ignoredChannels, ctx.channelId)

EvalV1(s, e, ctx) ==
    LET l == ParsedListsV1(s)
    IN  IF Falsy(ctx.guildId) THEN Returned("noGuild", FALSE, NoLists)
        ELSE IF ctx.isPushNotification THEN Returned("push", FALSE, NoLists)
        ELSE IF e.currentUser = Undefined THEN Raised
        ELSE IF AuthorIsCurrentUser(ctx, e)
             THEN Returned("self", FALSE, NoLists)
        ELSE IF ctx.channelId = e.currentChannel
             THEN Returned("viewing", FALSE, NoLists)
        ELSE IF ScopedAllowSuppresses(ScopeV1(s.allowed), "guild-channel", l, ctx)
             THEN Returned("allow", TRUE, l)
        ELSE IF ScopedDenySuppresses(ScopeV1(s.ignored), "guild-channel", l, ctx)
             THEN Returned("ignored", TRUE, l)
        ELSE Scanned(l, ScanKeywordsV1(s.notifications, ParseKeywordsV1(s.keywords), ctx))

(***************************************************************************)
(* v2 (part_000 lines 146-336)                                             *)
(***************************************************************************)
\* line 283 reads allowedChannels into allowedGuilds
ParsedListsV2(s) ==
    [allowedGuilds   |-> SplitTrim(s.allowedChannels),
     allowedChannels |-> SplitTrim(s.allowedChannels),
     ignoredGuilds   |-> SplitTrim(s.ignoredGuilds),
     ignoredChannels |-> SplitTrim(s.ignoredChannels),
     ignoredUsers    |-> SplitTrim(s.ignoredUsers)]

EvalV2(s, e, ctx) ==
    LET l == ParsedListsV2(s)
    IN  IF Falsy(ctx.guildId) THEN Returned("noGuild", FALSE, NoLists)
        ELSE IF ctx.isPushNotification THEN Returned("push", FALSE, NoLists)
        ELSE IF e.currentUser = Undefined THEN Raised
        ELSE IF AuthorIsCurrentUser(ctx, e)
             THEN Returned("self", FALSE, NoLists)
        ELSE IF ctx.channelId = e.currentChannel
             THEN Returned("viewing", FALSE, NoLists)
        ELSE IF ArrIncludes(l.ignoredUsers, ctx.message.author.id)
             THEN Returned("ignoredUser", TRUE, l)
        ELSE IF ScopedAllowSuppresses(s.allowed, "both", l, ctx)
             THEN Returned("allow", TRUE, l)
        ELSE IF ScopedDenySuppresses(s.ignored, "both", l, ctx)
             THEN Returned("ignored", TRUE, l)
        ELSE Scanned(l, ScanKeywords(s.notifications, ParseKeywords(s.keywords), ctx))

(***************************************************************************)
(* v3 (part_000 lines 338-507)                                             *)
(***************************************************************************)
\* line 459 reads allowedChannels into allowedGuilds
ParsedListsV3(s) ==
    [allowedGuilds   |-> SplitTrim(s.allowedChannels),
     allowedChannels |-> SplitTrim(s.allowedChannels),
     ignoredGuilds   |-> SplitTrim(s.ignoredGuilds),
     ignoredChannels |-> SplitTrim(s.ignoredChannels),
     ignoredUsers    |-> SplitTrim(s.ignoredUsers)]

EvalV3(s, e, ctx) ==
    LET l == ParsedListsV3(s)
    IN  IF Falsy(ctx.guildId) THEN Returned("noGuild", FALSE, NoLists)
        ELSE IF ctx.isPushNotification THEN Returned("push", FALSE, NoLists)
        ELSE IF e.currentUser = Undefined THEN Raised
        ELSE IF AuthorIsCurrentUser(ctx, e)
             THEN Returned("self", FALSE, NoLists)
        ELSE IF ctx.channelId = e.currentChannel
             THEN Returned("viewing", FALSE, NoLists)
        ELSE IF ~ArrIncludes(l.allowedGuilds, ctx.guildId)
             THEN Returned("allow", TRUE, l)
        ELSE IF ~ArrIncludes(l.allowedChannels, ctx.channelId)
             THEN Returned("allow", TRUE, l)
        ELSE IF ArrIncludes(l.ignoredGuilds, ctx.guildId)
             THEN Returned("ignoredGuild", TRUE, l)
        ELSE IF ArrIncludes(l.ignoredChannels, ctx.channelId)
             THEN Returned("ignoredChannel", TRUE, l)
        ELSE IF ArrIncludes(l.ignoredUsers, ctx.message.author.id)
             THEN Returned("ignoredUser", TRUE, l)
        ELSE IF s.ignoreBots /\ ctx.message.author.bot
             THEN Returned("bot", TRUE, l)
        ELSE Scanned(l, ScanKeywordsV3(s.notifications, ParseKeywords(s.keywords), ctx))

(***************************************************************************)
(* Input sets.                                                             *)
(***************************************************************************)
G1 == <<"G", "1">>
G2 == <<"G", "2">>
C1 == <<"C", "1">>
C2 == <<"C", "2">>
U1 == <<"U", "1">>
U2 == <<"U", "2">>
M1 == <<"M", "1">>

RECURSIVE StrsOfLen(_, _)
StrsOfLen(chars, n) ==
    IF n = 0 THEN {<<>>}
    ELSE {Append(s, c) : s \in StrsOfLen(chars, n - 1), c \in chars}

\* every string over chars of length at most n
Strs(chars, n) == UNION {StrsOfLen(chars, k) : k \in 0..n}

\* the texts that join n items with commas
RECURSIVE JoinsOfLen(_, _)
JoinsOfLen(items, n) ==
    IF n = 1 THEN items
    ELSE {t \o <<",">> \o i : t \in JoinsOfLen(items, n - 1), i \in items}

\* every comma-separated text of at most n items
ListTexts(items, n) == UNION {JoinsOfLen(items, k) : k \in 1..n}

Modes == {"inApp", "desktop", "both"}

Scopes == {"none", "guild", "channel", "both"}

\* the settings' defaults (index.ts lines 41-91)
Defaults ==
    [keywords |-> <<>>, notifications |-> "both",
     allowed |-> "none", ignored |-> "none",
     allowedGuilds |-> <<>>, allowedChannels |-> <<>>,
     ignoredGuilds |-> <<>>, ignoredChannels |-> <<>>, ignoredUsers |-> <<>>,
     ignoreBots |-> FALSE, ignoreMentions |-> TRUE]

Message(content, authorId, bot, mentions) ==
    [id |-> M1, content |-> content,
     author |-> [id |-> authorId, bot |-> bot], mentions |-> mentions]

Event(guildId, channelId, push, message) ==
    [guildId |-> guildId, channelId |-> channelId, isPushNotification |-> push,
     message |-> message]

NoEvent == Event(Undefined, Undefined, FALSE, Message(<<>>, Undefined, FALSE, {}))

\* v3 notifies only for events whose guild and channel ids are both in
\* allowedChannels; this text lets the events of G1 in C1 or C2 pass there
OpenChannels == G1 \o <<",">> \o C1 \o <<",">> \o C2

\* Keyword scan: every keyword text and every content within the bounds
KeywordChars == {"a", "B", ",", " "}

ContentChars == {"a", "A", "b"}

KeywordSettings ==
    {[Defaults EXCEPT !.keywords = k, !.allowedChannels = ac] :
        k \in Strs(KeywordChars, MaxKeywordsLen), ac \in {<<>>, OpenChannels}}

KeywordEnvs == {[currentUser |-> U1, currentChannel |-> Undefined, bots |-> {}]}

KeywordEvents ==
    {Event(G1, C1, FALSE, Message(c, U2, FALSE, {})) :
        c \in Strs(ContentChars, MaxContentLen)}

\* Environment and event fields: every early return of the handlers
EnvKeywords == {<<>>, <<"a", ",", "b">>}

EnvContents == {<<>>, <<"b", "a">>}

EnvSettings ==
    {[Defaults EXCEPT !.keywords = k, !.notifications = m, !.ignoreBots = ib,
                      !.ignoreMentions = im, !.allowedChannels = ac] :
        k \in EnvKeywords, m \in Modes, ib \in BOOLEAN, im \in BOOLEAN,
        ac \in {<<>>, OpenChannels}}

EnvEnvs ==
    {[currentUser |-> cu, currentChannel |-> cc, bots |-> b] :
        cu \in {Undefined, U1}, cc \in {Undefined, C1}, b \in {{}, {U2}}}

EnvEvents ==
    {Event(g, c, p, Message(t, a, b, m)) :
        g \in {Undefined, <<>>, G1}, c \in {C1, C2}, p \in BOOLEAN,
        t \in EnvContents, a \in {U1, U2}, b \in BOOLEAN, m \in {{}, {U1}}}

\* Allow and deny lists: every list text of at most MaxListItems items, an
\* item being an id, empty or white space (a space, a tab)
GuildListTexts == ListTexts({G1, <<>>, <<" ">>}, MaxListItems)

ChannelListTexts == ListTexts({C1, <<>>, <<"\t">>}, MaxListItems)

AllowSettings ==
    {[Defaults EXCEPT !.keywords = <<"a">>, !.allowed = sc,
                      !.allowedGuilds = ag, !.allowedChannels = ac] :
        sc \in Scopes, ag \in GuildListTexts, ac \in ChannelListTexts}

DenySettings ==
    {[Defaults EXCEPT !.keywords = <<"a">>, !.ignored = sc,
                      !.ignoredGuilds = ig, !.ignoredChannels = ic,
                      !.ignoredUsers = iu, !.allowedChannels = ac] :
        sc \in Scopes, ig \in GuildListTexts, ic \in ChannelListTexts,
        iu \in {<<>>, U2 \o <<",">>}, ac \in {<<>>, OpenChannels}}

ListSettings == AllowSettings \cup DenySettings

ListEnvs == {[currentUser |-> U1, currentChannel |-> Undefined, bots |-> {}]}

ListEvents ==
    {Event(g, c, FALSE, Message(<<"a">>, a, FALSE, {})) :
        g \in {G1, G2}, c \in {C1, C2, <<>>}, a \in {U2, <<>>}}

\* Repeated delivery: the same event evaluated again, the viewed channel
\* and the user directory changing in between or not
TwiceSettings ==
    {[Defaults EXCEPT !.keywords = k, !.ignoreBots = ib,
                      !.allowedChannels = OpenChannels] :
        k \in EnvKeywords, ib \in BOOLEAN}

TwiceEvents ==
    {Event(g, c, FALSE, Message(t, a, b, {})) :
        g \in {Undefined, G1}, c \in {C1, C2}, t \in EnvContents,
        a \in {U1, U2}, b \in BOOLEAN}

\* Callbacks: the notifications of an event, then the user's clicks
M2 == <<"M", "2">>

ClickSettings ==
    {[Defaults EXCEPT !.keywords = k, !.notifications = m,
                      !.allowedChannels = OpenChannels] :
        k \in {<<"a">>, <<"a", ",", "b">>}, m \in Modes}

ClickEvents ==
    {Event(G1, c, FALSE, [Message(t, U2, FALSE, {}) EXCEPT !.id = id]) :
        c \in {C1, C2}, t \in EnvContents, id \in {M1, M2}}

(***************************************************************************)
(* Actions: one plugin version is installed.  The host dispatches one      *)
(* MESSAGE_CREATE event to its handler, which runs to completion and adds  *)
(* its notifications to those on display; the host may dispatch the same   *)
(* event again; then the dispatch is over.  The user may invoke the        *)
(* callback of a notification on display at any time.  runs counts the     *)
(* deliveries of the event, first keeps the settings, the environment and  *)
(* the outcome of its first delivery.  The host dispatches an event while  *)
(* fewer than MaxShown notifications are on display.                       *)
(***************************************************************************)
Versions == {"index", "v1", "v2", "v3"}

\* the handler of the installed plugin version
EvalOf(v, s, e, ctx) ==
    CASE v = "index" -> EvalIndex(s, e, ctx)
      [] v = "v1" -> EvalV1(s, e, ctx)
      [] v = "v2" -> EvalV2(s, e, ctx)
      [] v = "v3" -> EvalV3(s, e, ctx)

NoFirst == [settings |-> Defaults, env |-> Undefined, out |-> NoOutcome]

(***************************************************************************)
(* What the renderers and the navigation router hold: the queue of notices *)
(* (the notice at its head is the one shown) and the desktop notifications *)
(* on display, each with the callback Notify gave it, the path of the last *)
(* NavigationRouter.transitionTo (nav), which callback ran last (last, and *)
(* clicked, what that callback held) and whether it called                 *)
(* Notices.popNotice().                                                    *)
(***************************************************************************)
NoCallback ==
    [guildId |-> Undefined, channelId |-> Undefined, messageId |-> Undefined,
     pops |-> FALSE]

NoUi ==
    [notices |-> <<>>, desktops |-> <<>>, nav |-> Undefined, last |-> "none",
     clicked |-> NoCallback, popped |-> FALSE]

RECURSIVE NoticesOf(_)
NoticesOf(calls) ==
    IF calls = <<>> THEN <<>> ELSE calls[1].notices \o NoticesOf(Tail(calls))

RECURSIVE DesktopsOf(_)
DesktopsOf(calls) ==
    IF calls = <<>> THEN <<>> ELSE calls[1].desktops \o DesktopsOf(Tail(calls))

\* Notices.showNotice and showNotification, for every Notify call made
Show(u, outcome) ==
    [u EXCEPT !.notices = @ \o NoticesOf(outcome.calls),
              !.desktops = @ \o DesktopsOf(outcome.calls)]

onMessageCreate(ctx) ==
    /\ version = "index"
    /\ pc = "idle"
    /\ Len(ui.notices) + Len(ui.desktops) < MaxShown
    /\ pc' = "index"
    /\ ev' = ctx
    /\ out' = EvalIndex(settings, env, ctx)
    /\ ui' = Show(ui, out')
    /\ runs' = 1
    /\ first' = [settings |-> settings, env |-> env, out |-> out']
    /\ UNCHANGED <<version, settings, env>>

onMessageCreateV1(ctx) ==
    /\ version = "v1"
    /\ pc = "idle"
    /\ Len(ui.notices) + Len(ui.desktops) < MaxShown
    /\ pc' = "v1"
    /\ ev' = ctx
    /\ out' = EvalV1(settings, env, ctx)
    /\ ui' = Show(ui, out')
    /\ runs' = 1
    /\ first' = [settings |-> settings, env |-> env, out |-> out']
    /\ UNCHANGED <<version, settings, env>>

onMessageCreateV2(ctx) ==
    /\ version = "v2"
    /\ pc = "idle"
    /\ Len(ui.notices) + Len(ui.desktops) < MaxShown
    /\ pc' = "v2"
    /\ ev' = ctx
    /\ out' = EvalV2(settings, env, ctx)
    /\ ui' = Show(ui, out')
    /\ runs' = 1
    /\ first' = [settings |-> settings, env |-> env, out |-> out']
    /\ UNCHANGED <<version, settings, env>>

onMessageCreateV3(ctx) ==
    /\ version = "v3"
    /\ pc = "idle"
    /\ Len(ui.notices) + Len(ui.desktops) < MaxShown
    /\ pc' = "v3"
    /\ ev' = ctx
    /\ out' = EvalV3(settings, env, ctx)
    /\ ui' = Show(ui, out')
    /\ runs' = 1
    /\ first' = [settings |-> settings, env |-> env, out |-> out']
    /\ UNCHANGED <<version, settings, env>>

\* the dispatch is over; what the handler put on display stays there
HandlerReturns ==
    /\ pc # "idle"
    /\ pc' = "idle"
    /\ ev' = NoEvent
    /\ out' = NoOutcome
    /\ runs' = 0
    /\ first' = NoFirst
    /\ UNCHANGED <<version, settings, env, ui>>

\* the host dispatches the event again, to the same handler
Redeliver ==
    /\ pc # "idle"
    /\ runs < MaxDeliveries
    /\ runs' = runs + 1
    /\ out' = EvalOf(version, settings, env, ev)
    /\ ui' = Show(ui, out')
    /\ UNCHANGED <<version, settings, env, pc, ev, first>>

\* the user views another channel, or none: getCurrentChannel()?.id changes
SwitchChannel(c) ==
    /\ c # env.currentChannel
    /\ env' = [env EXCEPT !.currentChannel = c]
    /\ UNCHANGED <<version, settings, pc, ev, out, runs, first, ui>>

\* the host's user directory changes: UserStore.getUser(id)?.bot is now true
\* of the ids in b and of no other
UserStoreUpdates(b) ==
    /\ b # env.bots
    /\ env' = [env EXCEPT !.bots = b]
    /\ UNCHANGED <<version, settings, pc, ev, out, runs, first, ui>>

\* the user presses "Go To Message" on the notice shown: the callback calls
\* NavigationRouter.transitionTo and, except in v3, Notices.popNotice(),
\* which takes the notice off the queue
ClickNoticeAction ==
    /\ ui.notices # <<>>
    /\ LET cb == ui.notices[1]
       IN  ui' = [ui EXCEPT
                    !.nav = NavPath(cb.guildId, cb.channelId, cb.messageId),
                    !.notices = IF cb.pops THEN Tail(@) ELSE @,
                    !.last = "notice",
                    !.clicked = cb,
                    !.popped = cb.pops]
    /\ UNCHANGED <<version, settings, env, pc, ev, out, runs, first>>

\* the user clicks a desktop notification: onClick calls transitionTo only
ClickDesktopNotification(i) ==
    /\ i \in 1..Len(ui.desktops)
    /\ LET cb == ui.desktops[i]
       IN  ui' = [ui EXCEPT
                    !.nav = NavPath(cb.guildId, cb.channelId, cb.messageId),
                    !.last = "desktop",
                    !.clicked = cb,
                    !.popped = cb.pops]
    /\ UNCHANGED <<version, settings, env, pc, ev, out, runs, first>>

InitWith(settingsSet, envSet) ==
    /\ version \in Versions
    /\ settings \in settingsSet
    /\ env \in envSet
    /\ pc = "idle"
    /\ ev = NoEvent
    /\ out = NoOutcome
    /\ runs = 0
    /\ first = NoFirst
    /\ ui = NoUi

Init == InitWith(KeywordSettings, KeywordEnvs)

Next ==
    \/ \E ctx \in KeywordEvents : onMessageCreate(ctx)
    \/ \E ctx \in KeywordEvents : onMessageCreateV1(ctx)
    \/ \E ctx \in KeywordEvents : onMessageCreateV2(ctx)
    \/ \E ctx \in KeywordEvents : onMessageCreateV3(ctx)
    \/ HandlerReturns

Spec == Init /\ [][Next]_vars

InitEnv == InitWith(EnvSettings, EnvEnvs)

NextEnv ==
    \/ \E ctx \in EnvEvents : onMessageCreate(ctx)
    \/ \E ctx \in EnvEvents : onMessageCreateV1(ctx)
    \/ \E ctx \in EnvEvents : onMessageCreateV2(ctx)
    \/ \E ctx \in EnvEvents : onMessageCreateV3(ctx)
    \/ HandlerReturns

SpecEnv == InitEnv /\ [][NextEnv]_vars

InitLists == InitWith(ListSettings, ListEnvs)

NextLists ==
    \/ \E ctx \in ListEvents : onMessageCreate(ctx)
    \/ \E ctx \in ListEvents : onMessageCreateV1(ctx)
    \/ \E ctx \in ListEvents : onMessageCreateV2(ctx)
    \/ \E ctx \in ListEvents : onMessageCreateV3(ctx)
    \/ HandlerReturns

SpecLists == InitLists /\ [][NextLists]_vars

InitTwice == InitWith(TwiceSettings, EnvEnvs)

NextTwice ==
    \/ \E ctx \in TwiceEvents : onMessageCreate(ctx)
    \/ \E ctx \in TwiceEvents : onMessageCreateV1(ctx)
    \/ \E ctx \in TwiceEvents : onMessageCreateV2(ctx)
    \/ \E ctx \in TwiceEvents : onMessageCreateV3(ctx)
    \/ Redeliver
    \/ \E c \in {Undefined, C1, C2} : SwitchChannel(c)
    \/ \E b \in {{}, {U2}} : UserStoreUpdates(b)
    \/ HandlerReturns

SpecTwice == InitTwice /\ [][NextTwice]_vars

InitClicks == InitWith(ClickSettings, ListEnvs)

NextClicks ==
    \/ \E ctx \in ClickEvents : onMessageCreate(ctx)
    \/ \E ctx \in ClickEvents : onMessageCreateV1(ctx)
    \/ \E ctx \in ClickEvents : onMessageCreateV2(ctx)
    \/ \E ctx \in ClickEvents : onMessageCreateV3(ctx)
    \/ ClickNoticeAction
    \/ \E i \in 1..MaxDesktops : ClickDesktopNotification(i)
    \/ HandlerReturns

SpecClicks == InitClicks /\ [][NextClicks]_vars

(***************************************************************************)
(* Vocabulary of the claims, stated without the handler's operators.       *)
(***************************************************************************)
Handled == pc # "idle"

Notified == out.calls # <<>>

\* the same letter, in the same case or not
SameLetter(c, d) ==
    c = d \/ \E i \in 1..Len(UpperCase) : {c, d} = {UpperCase[i], LowerCase[i]}

EqualsIgnoringCase(s, t) ==
    Len(s) = Len(t) /\ \A i \in 1..Len(s) : SameLetter(s[i], t[i])

ContainsIgnoringCase(content, k) ==
    \E i \in 0..Len(content) :
        /\ i + Len(k) <= Len(content)
        /\ EqualsIgnoringCase(SubSeq(content, i + 1, i + Len(k)), k)

\* a configured item with the white space around it removed
RECURSIVE Unpadded(_)
Unpadded(item) ==
    IF item = <<>> THEN item
    ELSE IF item[1] \in Whitespace THEN Unpadded(Tail(item))
    ELSE IF item[Len(item)] \in Whitespace
         THEN Unpadded(SubSeq(item, 1, Len(item) - 1))
    ELSE item

\* the items of a comma-separated text, in order
RECURSIVE Items(_)
Items(text) ==
    IF \A i \in 1..Len(text) : text[i] # "," THEN <<text>>
    ELSE LET j == CHOOSE i \in 1..Len(text) :
                      text[i] = "," /\ \A h \in 1..(i - 1) : text[h] # ","
         IN  <<SubSeq(text, 1, j - 1)>> \o Items(SubSeq(text, j + 1, Len(text)))

\* the first configured keyword, in list order, that is not blank and that
\* the content contains (in any case); <<>> when there is none
RECURSIVE FirstContained(_, _)
FirstContained(items, content) ==
    IF items = <<>> THEN <<>>
    ELSE IF /\ Unpadded(items[1]) # <<>>
            /\ ContainsIgnoringCase(content, Unpadded(items[1]))
         THEN Unpadded(items[1])
         ELSE FirstContained(Tail(items), content)

\* the keyword text configures no keyword: commas and white space only
AllBlank(text) == \A i \in 1..Len(text) : text[i] \in {","} \cup Whitespace

\* the handler got as far as the keyword scan
NotSuppressed == out.stage \in {"noMatch", "notified"}

(***************************************************************************)
(* C1: every event makes at most one Notify call, and the keyword the call *)
(* carries is the first configured keyword, in list order, that the        *)
(* content contains.  Fails: v1's loop has no break and calls Notify once  *)
(* for every matching keyword.                                             *)
(***************************************************************************)
C1_AtMostOneNotifyForFirstKeyword ==
    Handled =>
        /\ Len(out.calls) <= 1
        /\ Len(out.calls) = 1 =>
              EqualsIgnoringCase(out.calls[1].keyword,
                  FirstContained(Items(settings.keywords), ev.message.content))

(***************************************************************************)
(* C5: for an event that is not suppressed, a configured keyword that the  *)
(* content contains in any mix of case produces a notification.  Fails:    *)
(* v1 compares without lower-casing either side.                           *)
(***************************************************************************)
C5_CaseInsensitiveMatch ==
    (Handled /\ NotSuppressed) =>
        \A i \in 1..Len(Items(settings.keywords)) :
            LET k == Unpadded(Items(settings.keywords)[i])
            IN  (k # <<>> /\ ContainsIgnoringCase(ev.message.content, k))
                    => Notified

(***************************************************************************)
(* C9: with a keyword text that configures no keyword (empty, or commas    *)
(* and blanks only) no event is notified, and an event with empty content  *)
(* is never notified.                                                      *)
(***************************************************************************)
C9_NoKeywordOrNoContentNeverNotifies ==
    Handled =>
        ((AllBlank(settings.keywords) \/ ev.message.content = <<>>) => ~Notified)

C9_Witness ==
    /\ pc = "index"
    /\ out.stage = "noMatch"
    /\ ev.message.content = <<>>
    /\ settings.keywords = <<"a", ",">>

(***************************************************************************)
(* C2: with the allow-list restricted to guilds, allowedGuilds = G1 and no *)
(* channel allow-list, an event of G1 is not stopped by the allow-list     *)
(* check and an event of G2 is not notified.  Fails: index.ts returns at   *)
(* line 144 only when both lists are non-empty and both miss, so the event *)
(* of G2 is notified; v2 and v3 read allowedGuilds from allowedChannels,   *)
(* so the event of G1 is stopped.                                          *)
(***************************************************************************)
C2_GuildAllowList ==
    (/\ Handled
     /\ settings.allowed = "guild"
     /\ settings.allowedGuilds = G1
     /\ settings.allowedChannels = <<>>) =>
        /\ ev.guildId = G1 => out.stage # "allow"
        /\ ev.guildId = G2 => ~Notified

(***************************************************************************)
(* C3: no entry of a parsed id list is the empty string: an empty event    *)
(* field is never found in the list it is tested against, and the list     *)
(* parsed from an empty text has no empty entry.  Fails: split and trim    *)
(* keep the empty and blank items ("C1," gives ["C1", ""]), and v1, v2, v3 *)
(* parse the empty text to [""].                                           *)
(***************************************************************************)
HasEmptyEntry(list) == \E i \in 1..Len(list) : list[i] = <<>>

C3_NoEmptyIdentifier ==
    (Handled /\ out.parsed) =>
        /\ ev.channelId = <<>> =>
              /\ ~HasEmptyEntry(out.lists.allowedChannels)
              /\ ~HasEmptyEntry(out.lists.ignoredChannels)
        /\ ev.message.author.id = <<>> => ~HasEmptyEntry(out.lists.ignoredUsers)
        /\ settings.ignoredGuilds = <<>> => ~HasEmptyEntry(out.lists.ignoredGuilds)
        /\ settings.ignoredChannels = <<>> => ~HasEmptyEntry(out.lists.ignoredChannels)

(***************************************************************************)
(* C4: every Notify call invokes, in mode "both", the notice renderer once *)
(* and the desktop renderer once; in mode "inApp" the notice renderer once *)
(* and the desktop renderer never; in mode "desktop" the desktop renderer  *)
(* once and the notice renderer never.                                     *)
(***************************************************************************)
C4_RenderersPerMode ==
    Handled =>
        \A i \in 1..Len(out.calls) :
            LET n == Len(out.calls[i].notices)
                d == Len(out.calls[i].desktops)
            IN  /\ settings.notifications = "both" => (n = 1 /\ d = 1)
                /\ settings.notifications = "inApp" => (n = 1 /\ d = 0)
                /\ settings.notifications = "desktop" => (n = 0 /\ d = 1)

C4_Witness ==
    /\ pc = "index"
    /\ settings.notifications = "both"
    /\ Len(out.calls) = 1
    /\ Len(out.calls[1].notices) = 1
    /\ Len(out.calls[1].desktops) = 1

(***************************************************************************)
(* C6: with the deny-list restricted to channels (no denied guilds), an    *)
(* event in a denied channel is not notified, and an event in another      *)
(* channel is notified exactly as it is with no deny-list configured.      *)
(***************************************************************************)
ListsItem(text, id) ==
    \E i \in 1..Len(Items(text)) : Unpadded(Items(text)[i]) = id

WithoutDenyList(s) ==
    [s EXCEPT !.ignored = "none", !.ignoredGuilds = <<>>, !.ignoredChannels = <<>>]

C6_ChannelDenyList ==
    (/\ Handled
     /\ settings.ignored = "channel"
     /\ settings.ignoredGuilds = <<>>
     /\ ev.channelId # <<>>) =>
        /\ ListsItem(settings.ignoredChannels, ev.channelId) => ~Notified
        /\ ~ListsItem(settings.ignoredChannels, ev.channelId) =>
              out.calls = EvalOf(pc, WithoutDenyList(settings), env, ev).calls

C6_Witness ==
    /\ pc = "index"
    /\ settings.ignored = "channel"
    /\ settings.ignoredGuilds = <<>>
    /\ settings.ignoredChannels = C1
    /\ ev.channelId = C1
    /\ out.stage = "ignoredChannel"
    /\ EvalOf(pc, WithoutDenyList(settings), env, ev).calls # <<>>

(***************************************************************************)
(* C7: an event without a guildId is never notified.                       *)
(***************************************************************************)
C7_DirectMessageNeverNotifies ==
    (Handled /\ ev.guildId = Undefined) => ~Notified

C7_Witness ==
    /\ pc = "index"
    /\ ev.guildId = Undefined
    /\ out.stage = "noGuild"
    /\ ~ev.isPushNotification
    /\ ev.message.author.id # env.currentUser
    /\ ev.message.content = <<"b", "a">>
    /\ settings.keywords = <<"a", ",", "b">>

(***************************************************************************)
(* C8: an event whose author is the current user is never notified.        *)
(***************************************************************************)
C8_OwnMessageNeverNotifies ==
    (Handled /\ ev.message.author.id = env.currentUser) => ~Notified

C8_Witness ==
    /\ pc = "index"
    /\ ev.message.author.id = env.currentUser
    /\ out.stage = "self"
    /\ ev.message.content = <<"b", "a">>
    /\ settings.keywords = <<"a", ",", "b">>

(***************************************************************************)
(* C10: the handler never raises.  Fails: v1, v2 and v3 read               *)
(* UserStore.getCurrentUser().id, a TypeError when there is no current     *)
(* user.                                                                   *)
(***************************************************************************)
C10_NeverRaises == Handled => ~out.raised

(***************************************************************************)
(* C11: a further delivery of the same event under the settings, the       *)
(* current user and the viewed channel of its first delivery has the       *)
(* outcome of the first delivery, the same Notify calls with the same      *)
(* keywords or none both times; nothing else is held fixed.  Fails:        *)
(* index.ts asks the user directory, UserStore.getUser(id)?.bot, which is  *)
(* none of the three, so the outcome changes when the directory learns     *)
(* between the deliveries that the author is a bot.                        *)
(***************************************************************************)
SameRulesAsFirst ==
    /\ settings = first.settings
    /\ env.currentUser = first.env.currentUser
    /\ env.currentChannel = first.env.currentChannel

C11_SameOutcomeTwice ==
    [][(runs >= 1 /\ runs' = runs + 1 /\ SameRulesAsFirst)
          => out'.calls = first.out.calls]_vars

(***************************************************************************)
(* C12: with a guild deny-list and a channel deny-list both in effect, the *)
(* deny-list check stops an event only when its guild is denied and its    *)
(* channel is denied; an event that only one of the two lists names is     *)
(* notified as it is with no deny-list.  Fails: index.ts and v3 have no    *)
(* combined scope and return when either list names the event.             *)
(***************************************************************************)
ConfiguresId(text) ==
    \E i \in 1..Len(Items(text)) : Unpadded(Items(text)[i]) # <<>>

DenyStages == {"ignoredGuild", "ignoredChannel", "ignored"}

C12_DenyBothIsConjunctive ==
    (/\ Handled
     /\ settings.ignored = "both"
     /\ ConfiguresId(settings.ignoredGuilds)
     /\ ConfiguresId(settings.ignoredChannels)
     /\ ev.channelId # <<>>) =>
        LET g == ListsItem(settings.ignoredGuilds, ev.guildId)
            c == ListsItem(settings.ignoredChannels, ev.channelId)
        IN  /\ out.stage \in DenyStages => (g /\ c)
            /\ ~(g /\ c) =>
                  out.calls = EvalOf(pc, WithoutDenyList(settings), env, ev).calls

(***************************************************************************)
(* C13: with ignoreBots enabled an event whose author carries the bot flag *)
(* is never notified, whatever the user directory holds for that author;   *)
(* with ignoreBots disabled the handler never returns at the bot check.    *)
(* Stated of the versions that have the setting, index.ts and v3.  Fails:  *)
(* index.ts asks the directory, UserStore.getUser(id)?.bot, and not the    *)
(* event, so a bot the directory does not know is notified.                *)
(***************************************************************************)
HasIgnoreBots == pc \in {"index", "v3"}

C13_BotsIgnored ==
    (Handled /\ HasIgnoreBots) =>
        /\ (settings.ignoreBots /\ ev.message.author.bot) => ~Notified
        /\ ~settings.ignoreBots => out.stage # "bot"

(***************************************************************************)
(* C14: every callback Notify gives to a renderer holds the guild, channel *)
(* and message id of the event that triggered it; the notice's action      *)
(* requests navigation to exactly the place its callback holds and then    *)
(* dismisses the notice; a click on a desktop notification requests        *)
(* navigation to the place its callback holds and dismisses nothing;       *)
(* before a callback is invoked nothing is requested.  Fails: the action   *)
(* of v3's notice does not call Notices.popNotice().                       *)
(***************************************************************************)
\* the parts of a path between its slashes
RECURSIVE Segments(_)
Segments(path) ==
    IF \A i \in 1..Len(path) : path[i] # "/" THEN <<path>>
    ELSE LET j == CHOOSE i \in 1..Len(path) :
                      path[i] = "/" /\ \A h \in 1..(i - 1) : path[h] # "/"
         IN  <<SubSeq(path, 1, j - 1)>> \o Segments(SubSeq(path, j + 1, Len(path)))

NavigatesTo(path, guildId, channelId, messageId) ==
    Segments(path) =
        <<<<>>, <<"c", "h", "a", "n", "n", "e", "l", "s">>,
          guildId, channelId, messageId>>

HoldsEvent(cb) ==
    /\ cb.guildId = ev.guildId
    /\ cb.channelId = ev.channelId
    /\ cb.messageId = ev.message.id

NavigatedToClicked ==
    NavigatesTo(ui.nav, ui.clicked.guildId, ui.clicked.channelId,
                ui.clicked.messageId)

C14_CallbacksNavigateAndDismiss ==
    /\ Handled =>
          \A i \in 1..Len(out.calls) :
              /\ \A j \in 1..Len(out.calls[i].notices) :
                    HoldsEvent(out.calls[i].notices[j])
              /\ \A j \in 1..Len(out.calls[i].desktops) :
                    HoldsEvent(out.calls[i].desktops[j])
    /\ ui.last = "none" => ui.nav = Undefined
    /\ ui.last = "notice" => (NavigatedToClicked /\ ui.popped)
    /\ ui.last = "desktop" => (NavigatedToClicked /\ ~ui.popped)

====
